---- MODULE Spec2Model ----
(***************************************************************************)
(* A model of MultiNER (src/ner.py): the backend worker threads, the       *)
(* request handler that dispatches them and joins their results, and the   *)
(* offset-keyed merge intergrate_results with max_class and context.       *)
(*                                                                         *)
(* Python values are modelled as follows.  A str is a sequence of          *)
(* one-character strings where its characters are inspected (texts and     *)
(* surface forms) and a TLA+ string where it is only compared (backend     *)
(* names, type labels, dictionary keys).  A dict is a sequence of          *)
(* [k |-> key, v |-> value] pairs in insertion order, which is the order   *)
(* Python iterates a dict in.  A key that a dict does not hold is the      *)
(* value None below.                                                       *)
(***************************************************************************)
EXTENDS Integers, Sequences, FiniteSets, TLC

(***************************************************************************)
(* Bounds of the model.                                                    *)
(***************************************************************************)
\* Offsets reported by the backends range over 0..MaxPos.
MaxPos == 1
\* Total number of entities the backends of one segment report.
MaxReports == 4
\* Length of the texts context() and the offset computation are applied to.
MaxTextLen == 4
\* The context windows range over 0..MaxWindow tokens.
MaxWindow == 2
\* Number of entities the offset computation is applied to.
MaxNames == 2

(***************************************************************************)
(* Program constants.                                                      *)
(***************************************************************************)
\* index(): context_len = 5 when the request gives none.
DefaultContextLen == 5

None == "None"

Pos == 0 .. MaxPos

\* The labels translate() produces that the model uses; Spotlight always
\* reports "other" (ne["type"] = "other").
Types == {"person", "other"}
SpotlightTypes == {"other"}

\* The segment text and the surface forms reported for it.  Flair is run
\* with use_tokenizer=False and may report a name with the punctuation
\* that follows it (its doctest: 'Albert Einstein.'), and Spotlight
\* reports the '@surfaceForm' of its own annotation, whose extent need not
\* be the one the taggers give; the other backends report the bare name.
SourceText == <<"a", ",", " ", "B", "o", ".", " ", "c">>
BareName == <<"B", "o">>
NameWithPeriod == <<"B", "o", ".">>
SurfacesOf(backend) ==
    IF backend \in {"flair", "spotlight"}
    THEN {BareName, NameWithPeriod}
    ELSE {BareName}

Max(a, b) == IF a > b THEN a ELSE b
Min(a, b) == IF a < b THEN a ELSE b

(***************************************************************************)
(* Python str and list operations.                                         *)
(***************************************************************************)
\* s[:hi]
PySliceTo(s, hi) ==
    LET n == Len(s)
        e == IF hi < 0 THEN Max(n + hi, 0) ELSE Min(hi, n)
    IN  SubSeq(s, 1, e)

\* s[lo:]
PySliceFrom(s, lo) ==
    LET n == Len(s)
        b == IF lo < 0 THEN Max(n + lo, 0) ELSE Min(lo, n)
    IN  SubSeq(s, b + 1, n)

Whitespace == {" "}

RECURSIVE lstrip(_)
lstrip(s) ==
    IF s # <<>> /\ Head(s) \in Whitespace THEN lstrip(Tail(s)) ELSE s

RECURSIVE rstrip(_)
rstrip(s) ==
    IF s # <<>> /\ s[Len(s)] \in Whitespace
    THEN rstrip(SubSeq(s, 1, Len(s) - 1))
    ELSE s

\* str.strip()
strip(s) == rstrip(lstrip(s))

\* Length of the longest prefix of s without whitespace.
RECURSIVE TokenLen(_)
TokenLen(s) ==
    IF s = <<>> \/ Head(s) \in Whitespace THEN 0 ELSE 1 + TokenLen(Tail(s))

\* str.split(): the whitespace-delimited tokens of s.
RECURSIVE split(_)
split(s) ==
    LET t == lstrip(s)
        k == TokenLen(t)
    IN  IF t = <<>> THEN <<>>
        ELSE <<SubSeq(t, 1, k)>> \o split(SubSeq(t, k + 1, Len(t)))

\* " ".join(tokens)
RECURSIVE join(_)
join(tokens) ==
    IF tokens = <<>> THEN <<>>
    ELSE IF Len(tokens) = 1 THEN tokens[1]
    ELSE tokens[1] \o <<" ">> \o join(Tail(tokens))

\* A search that reports every string at index 0.
findAtStart(text, sub) == 0

\* str.find(sub): the lowest index at which sub occurs, or -1.
find(text, sub) ==
    LET hits == {i \in 0 .. Len(text) - Len(sub) :
                    SubSeq(text, i + 1, i + Len(sub)) = sub}
    IN  IF hits = {} THEN 0 - 1
        ELSE CHOOSE i \in hits : \A j \in hits : i <= j

(***************************************************************************)
(* Python dict operations, on a sequence of [k, v] pairs.                  *)
(***************************************************************************)
DictKeys(d) == {d[i].k : i \in 1 .. Len(d)}

DictGet(d, key) ==
    IF key \in DictKeys(d)
    THEN d[CHOOSE i \in 1 .. Len(d) : d[i].k = key].v
    ELSE None

\* d[key] = val: an existing key keeps its place, a new key goes last.
DictSet(d, key, val) ==
    IF key \in DictKeys(d)
    THEN [i \in 1 .. Len(d) |-> IF d[i].k = key THEN [k |-> key, v |-> val] ELSE d[i]]
    ELSE Append(d, [k |-> key, v |-> val])

(***************************************************************************)
(* context(text_org, ne, pos, context)                                     *)
(***************************************************************************)
\* The characters of CONTEXT_TOKENS that the texts of the model can hold
\* (the string also holds a backquote and two typographic quotes).
CONTEXT_TOKENS == {"!", ",", "'", "\"", "<", ">", "?", "-", "+", "\\"}

context(text_org, ne, pos, context_len) ==
    LET leftof    == strip(PySliceTo(text_org, pos))
        l_context == join(PySliceFrom(split(leftof), 0 - context_len))
        rightof   == strip(PySliceFrom(text_org, pos + Len(ne)))
        r_context == join(PySliceTo(split(rightof), context_len))
        \* l_context[-1] and r_context[0] raise IndexError on an empty
        \* string, which the two try blocks swallow.
        withLeft  == IF l_context # <<>> /\ l_context[Len(l_context)] \in CONTEXT_TOKENS
                     THEN <<l_context[Len(l_context)]>> \o ne
                     ELSE ne
        withBoth  == IF r_context # <<>> /\ r_context[1] \in CONTEXT_TOKENS
                     THEN withLeft \o <<r_context[1]>>
                     ELSE withLeft
    IN  [left_context |-> l_context, right_context |-> r_context, ne_context |-> withBoth]

(***************************************************************************)
(* max_class(input_type, pref_type)                                        *)
(***************************************************************************)
\* The local `sure` before any branch of max_class has assigned it;
\* `return(mc, sure)` then raises UnboundLocalError.
Unbound == 0

\* The first key whatever its count.
FirstKey(input_type) == input_type[1].k

\* max(input_type, key=input_type.get): the first key, in the dict's
\* order, whose count is the highest.
MaxKey(input_type) ==
    LET best == CHOOSE i \in 1 .. Len(input_type) :
                    /\ \A j \in 1 .. Len(input_type) : input_type[j].v <= input_type[i].v
                    /\ \A j \in 1 .. i - 1 : input_type[j].v < input_type[i].v
    IN  input_type[best].k

max_class(input_type, pref_type) ==
    LET \* input_type.get(t) == n, which is False when t is no key
        Is(t, n) == t \in DictKeys(input_type) /\ DictGet(input_type, t) = n
        mc0   == MaxKey(input_type)
        mc    == IF Is(mc0, 1) THEN pref_type ELSE mc0
        sure1 == IF Is(mc0, 1) THEN 1 ELSE Unbound
        sure2 == IF Is(mc, 2) THEN 2 ELSE sure1
        sure3 == IF Is(mc, 3) THEN 3 ELSE sure2
        sure4 == IF Is(mc, 4) THEN 4 ELSE sure3
    IN  [mc |-> mc, sure |-> sure4]

(***************************************************************************)
(* intergrate_results(result, source, source_text, context_len)            *)
(***************************************************************************)
Seeds == {"stanford", "spotlight"}
\* parsers = ["spacy", "polyglot", "flair"]
parsers == <<"spacy", "polyglot", "flair">>
Backends == {"stanford", "spotlight", "spacy", "polyglot", "flair"}

\* The keys of the result map handed over: index() configures four
\* backends, test_all() five.
IndexParsers == {"polyglot", "spacy", "spotlight", "stanford"}
TestAllParsers == {"polyglot", "stanford", "flair", "spacy", "spotlight"}

\* A dict key as Python compares keys: an int never equals a str.
IntKey(n) == <<"int", ToString(n)>>
StrKey(s) == <<"str", s>>

\* `res = []` before the first loop: a list without elements.
EmptyListMembers == {}
\* The keys of the dict `res` that either seed loop builds.
SeedEntryKeys == {StrKey("count"), StrKey("ne"), StrKey("ner_src"),
                  StrKey("type"), StrKey("pref_type")}

\* request.args.get('ne') when the request has none: `if manual` is false.
NoManual == <<>>

\* The "alt_ne" key of an entry: no value, or <<the surface form>>.
NoAltNe == <<>>

\* The entities a backend can report for the segment.
RawEntities(backend) ==
    [ne : SurfacesOf(backend), pos : Pos,
     type : IF backend = "spotlight" THEN SpotlightTypes ELSE Types]

\* type[t] = 1 whether or not t is a key.
TypeSetOne(type, t) == DictSet(type, t, 1)

\* type[t] += 1 if t is a key, else type[t] = 1
TypeInc(type, t) ==
    IF t \in DictKeys(type)
    THEN DictSet(type, t, DictGet(type, t) + 1)
    ELSE DictSet(type, t, 1)

\* A seed entry without the "pref_type" key.
SeedEntryWithoutPreferred(backend, ne) ==
    [count |-> 1, ne |-> ne.ne, ner_src |-> <<backend>>,
     type |-> <<[k |-> ne.type, v |-> 1]>>,
     pref_type |-> None, alt_ne |-> NoAltNe]

\* The entry the two seed loops build.
SeedEntry(backend, ne) ==
    [count |-> 1, ne |-> ne.ne, ner_src |-> <<backend>>,
     type |-> <<[k |-> ne.type, v |-> 1]>>,
     pref_type |-> ne.type, alt_ne |-> NoAltNe]

\* One iteration of `for ne in result.get("stanford")`.
StanfordStep(reg, ne) == DictSet(reg, ne.pos, SeedEntry("stanford", ne))

\* `ne.get("pos") in res`: res is the last entry built (a dict with the
\* keys above) or the empty list, never the registry.
PosInRes(pos, resMembers) == IntKey(pos) \in resMembers

\* The else branch of the spotlight loop.
SpotlightUpdate(reg, ne) ==
    LET e == DictGet(reg, ne.pos)
    IN  DictSet(reg, ne.pos,
                [e EXCEPT !.count = @ + 1,
                          !.ner_src = Append(@, "spotlight"),
                          !.type = TypeInc(@, ne.type)])

\* The spotlight loop with the offset looked up in the registry.
SpotlightStepByRegistry(reg, resMembers, ne) ==
    IF ne.pos \notin DictKeys(reg)
    THEN DictSet(reg, ne.pos, SeedEntry("spotlight", ne))
    ELSE SpotlightUpdate(reg, ne)

\* One iteration of `for ne in result.get("spotlight")`.
SpotlightStep(reg, resMembers, ne) ==
    IF ~PosInRes(ne.pos, resMembers)
    THEN DictSet(reg, ne.pos, SeedEntry("spotlight", ne))
    ELSE SpotlightUpdate(reg, ne)

\* A parser that is never taken as counted.
NeverCounted(parser, e) == FALSE

\* `parser in new_result[ne.get("pos")]["ner_src"]`
AlreadyCounted(parser, e) == \E i \in 1 .. Len(e.ner_src) : e.ner_src[i] = parser

\* One iteration of `for ne in result.get(parser)`.
CorroborateStep(reg, parser, ne) ==
    IF ne.pos \in DictKeys(reg)
    THEN LET e == DictGet(reg, ne.pos)
         IN  IF AlreadyCounted(parser, e)
             THEN reg
             ELSE DictSet(reg, ne.pos,
                          [e EXCEPT !.count = @ + 1,
                                    !.ner_src = Append(@, parser),
                                    !.type = TypeInc(@, ne.type),
                                    !.alt_ne = IF ne.ne # e.ne THEN <<ne.ne>> ELSE @])
    ELSE DictSet(reg, ne.pos,
                 [count |-> 1, ne |-> ne.ne, ner_src |-> <<parser>>,
                  type |-> <<[k |-> ne.type, v |-> 1]>>,
                  pref_type |-> None, alt_ne |-> NoAltNe])

\* The final loop without the preferred-type rule.
SurvivesBySourcesOnly(e) == Len(e.ner_src) = 2

\* The condition of the final loop.
Survives(e) == e.pref_type # None \/ Len(e.ner_src) = 2

\* ne_type of a surviving entry.
NeType(e) ==
    IF e.pref_type # None
    THEN max_class(e.type, e.pref_type)
    ELSE max_class(e.type, e.type[1].k)

\* The entry as the final loop leaves it in final_result.
Finalize(pos, e, source, source_text, context_len) ==
    LET ne_type == NeType(e)
        ctx     == context(source_text, e.ne, pos, context_len)
    IN  [count |-> e.count, ne |-> e.ne, ner_src |-> e.ner_src,
         alt_ne |-> e.alt_ne,
         types |-> [i \in 1 .. Len(e.type) |-> e.type[i].k],
         type |-> ne_type.mc, type_certainty |-> ne_type.sure,
         left_context |-> ctx.left_context,
         right_context |-> ctx.right_context,
         ne_context |-> ctx.ne_context,
         pos |-> pos, source |-> source]

\* final_result after `for ne in new_result`, entries [from..] of reg.
RECURSIVE FinalLoop(_, _, _, _, _)
FinalLoop(reg, from, source, source_text, context_len) ==
    IF from > Len(reg) THEN <<>>
    ELSE LET rest == FinalLoop(reg, from + 1, source, source_text, context_len)
         IN  IF Survives(reg[from].v)
             THEN <<Finalize(reg[from].k, reg[from].v, source, source_text, context_len)>>
                      \o rest
             ELSE rest

\* Insert x into the list xs sorted by 'pos', after the items equal to it.
RECURSIVE InsertByPos(_, _)
InsertByPos(xs, x) ==
    IF xs = <<>> THEN <<x>>
    ELSE IF x.pos < Head(xs).pos THEN <<x>> \o xs
    ELSE <<Head(xs)>> \o InsertByPos(Tail(xs), x)

\* The list as the final loop left it.
Unsorted(xs) == xs

\* sorted(final_result, key=operator.itemgetter('pos')): a stable sort.
RECURSIVE SortedByPos(_)
SortedByPos(xs) ==
    IF xs = <<>> THEN <<>>
    ELSE InsertByPos(SortedByPos(SubSeq(xs, 1, Len(xs) - 1)), xs[Len(xs)])

\* Whether max_class raises for a surviving entry of reg.
TypeResolutionRaises(reg) ==
    \E i \in 1 .. Len(reg) : Survives(reg[i].v) /\ NeType(reg[i].v).sure = Unbound

\* The first loop over a whole list.
RECURSIVE StanfordLoop(_, _)
StanfordLoop(reg, list) ==
    IF list = <<>> THEN reg
    ELSE StanfordLoop(StanfordStep(reg, Head(list)), Tail(list))

\* The second loop over a whole list; st is [reg, res].
RECURSIVE SpotlightLoop(_, _)
SpotlightLoop(st, list) ==
    IF list = <<>> THEN st
    ELSE SpotlightLoop(
             [reg |-> SpotlightStep(st.reg, st.res, Head(list)),
              res |-> IF ~PosInRes(Head(list).pos, st.res) THEN SeedEntryKeys ELSE st.res],
             Tail(list))

\* The inner loop of the third pass over a whole list.
RECURSIVE CorroborateLoop(_, _, _)
CorroborateLoop(reg, parser, list) ==
    IF list = <<>> THEN reg
    ELSE CorroborateLoop(CorroborateStep(reg, parser, Head(list)), parser, Tail(list))

\* The third pass: `for parser in parsers`, from parsers[i] on.
RECURSIVE ParsersLoop(_, _, _)
ParsersLoop(reg, result, i) ==
    IF i > Len(parsers) THEN reg
    ELSE IF parsers[i] \notin DictKeys(result)
         THEN ParsersLoop(reg, result, i + 1)
         ELSE ParsersLoop(CorroborateLoop(reg, parsers[i], DictGet(result, parsers[i])),
                          result, i + 1)

\* The registry with the seed lists taken by their place in `result`.
RegistryByPlace(result) ==
    LET stanford  == StanfordLoop(<<>>, result[1].v)
        res0      == IF result[1].v = <<>> THEN EmptyListMembers ELSE SeedEntryKeys
        spotlight == SpotlightLoop([reg |-> stanford, res |-> res0], result[2].v)
    IN  ParsersLoop(spotlight.reg, result, 1)

\* The registry after the three passes over `result`.
Registry(result) ==
    LET stanford  == StanfordLoop(<<>>, DictGet(result, "stanford"))
        res0      == IF DictGet(result, "stanford") = <<>>
                     THEN EmptyListMembers ELSE SeedEntryKeys
        spotlight == SpotlightLoop([reg |-> stanford, res |-> res0],
                                   DictGet(result, "spotlight"))
    IN  ParsersLoop(spotlight.reg, result, 1)

\* intergrate_results as one call: [raised, value].
intergrate_results(result, source, source_text, context_len) ==
    LET reg == Registry(result)
    IN  IF TypeResolutionRaises(reg)
        THEN [raised |-> TRUE, value |-> <<>>]
        ELSE [raised |-> FALSE,
              value |-> SortedByPos(FinalLoop(reg, 1, source, source_text, context_len))]

(***************************************************************************)
(* The offsets Stanford.run, Polyglot.run and Spacy.run give the entities  *)
(* of their result list.                                                   *)
(***************************************************************************)
\* A cursor that skips the length of the entity only.
AdvanceByLength(offset, pos, ne) == offset + Len(ne)

\* offset += pos + len(ne)
Advance(offset, pos, ne) == offset + pos + Len(ne)

\* for i, ne in enumerate(result): the "pos" of each entity of `names`,
\* from the cursor `offset` on.
RECURSIVE Positions(_, _, _)
Positions(parsed_text, names, offset) ==
    IF names = <<>> THEN <<>>
    ELSE LET ne  == Head(names)
             pos == find(PySliceFrom(parsed_text, offset), ne)
         IN  <<pos + offset>>
                 \o Positions(parsed_text, Tail(names), Advance(offset, pos, ne))

(***************************************************************************)
(* manual_find(input_str, source_text, source, context_len)                *)
(***************************************************************************)
\* [raised, value].  In the branch `if not pos == -1` the first statement,
\* `result["left_context"],` is an expression that reads a key the dict
\* does not hold yet: it raises KeyError before context() is called.
manual_find(input_str, source_text, source, context_len) ==
    LET pos == find(source_text, input_str)
    IN  IF pos # 0 - 1
        THEN [raised |-> TRUE]
        ELSE [raised |-> FALSE,
              value |-> [pos |-> pos, ne |-> input_str, source |-> source,
                         type |-> "manual", left_context |-> <<>>,
                         right_context |-> <<>>, ne_context |-> input_str]]

(***************************************************************************)
(* The aggregation of one segment, one loop iteration per step.  The       *)
(* entity lists of the result map are read front to back exactly once, so  *)
(* each iteration draws the next entity of its list when it reads it;      *)
(* `reported` records what the lists read so far held.                     *)
(***************************************************************************)
VARIABLES
    pc,            \* the loop intergrate_results is in
    configured,    \* the keys of `result`
    new_result,    \* the registry, offset -> entry
    res,           \* the members `in res` tests: the keys of the dict res
    final_result,  \* the list returned
    reported,      \* <<backend, pos, type>> of every entity read so far
    used,          \* how many entities have been read so far
    quota,         \* how many entities the lists of the segment hold at most
    first_ne,      \* per offset: the surface form of the first entity read
    last_alt       \* per offset: the surface form of the last entity read
                   \* from a further backend that differs from the first

aggVars == <<pc, configured, new_result, res, final_result, reported, used, quota,
             first_ne, last_alt>>

VARIABLES
    caller,        \* who dispatches: index() or the doctest of test_all()
    request,       \* the request arguments: [url, manual]
    upstream,      \* the text source: reachable or not
    hpc,           \* where the caller is
    error,         \* the exception that ended the caller, or the error it answered
    retry,         \* ocr_to_dict: retry
    parsed_text,   \* the segment labels of the fetched text, in dict order
    part,          \* index of the segment being processed
    tasks,         \* the threads started for the segment, in start order
    joined,        \* how many of them have been joined
    wpc,           \* per backend: where its thread is
    wretry,        \* per backend: `retry` of its run()
    whas,          \* per backend: whether self.result has been assigned
    wresult,       \* per backend: the entity list of self.result
    woutcome,      \* per backend: whether its recognizer answered or failed
    data,          \* Spotlight.run: what `data` holds
    sent,          \* Spotlight.run: the params of the attempts made so far
    result,        \* the result map the joins fill
    result_all,    \* segment label -> aggregated entities
    fresult,       \* the entities of the response
    overtaken      \* whether a thread of the segment has ended while a thread
                   \* started before it was still running

dispVars == <<caller, request, upstream, hpc, error, retry, parsed_text, part,
              tasks, joined, wpc, wretry, whas, wresult, woutcome, data, sent,
              result, result_all, fresult, overtaken>>

VARIABLES
    fn,            \* the function applied on its own: "context" or "offsets"
    args,          \* its arguments
    ret            \* <<>> before the call, <<the value returned>> after it

fnVars == <<fn, args, ret>>

vars == <<aggVars, dispVars, fnVars>>

\* No function is applied on its own.
FnIdle ==
    /\ fn = "none"
    /\ args = <<>>
    /\ ret = <<>>

\* The loop after the one over `list`.
NextLoop(list) ==
    CASE list = "stanford"  -> "spotlight"
      [] list = "spotlight" -> "spacy"
      [] list = "spacy"     -> "polyglot"
      [] list = "polyglot"  -> "flair"
      [] list = "flair"     -> "filter"

Read(backend, ne) ==
    /\ used < quota
    /\ used' = used + 1
    /\ quota' = quota
    /\ reported' = reported \cup {<<backend, ne.pos, ne.type>>}
    /\ first_ne' = IF first_ne[ne.pos] = <<>>
                   THEN [first_ne EXCEPT ![ne.pos] = <<ne.ne>>]
                   ELSE first_ne
    /\ last_alt' = IF /\ first_ne[ne.pos] # <<>>
                      /\ \A t \in Types : <<backend, ne.pos, t>> \notin reported
                      /\ <<ne.ne>> # first_ne[ne.pos]
                   THEN [last_alt EXCEPT ![ne.pos] = <<ne.ne>>]
                   ELSE last_alt

\* The request handler and the worker threads before any request.
DispIdle ==
    /\ caller = "index"
    /\ request = [url |-> TRUE, manual |-> NoManual]
    /\ upstream = "reachable"
    /\ hpc = "args"
    /\ error = None
    /\ retry = 0
    /\ parsed_text = <<>>
    /\ part = 1
    /\ tasks = <<>>
    /\ joined = 0
    /\ wpc = [b \in Backends |-> "idle"]
    /\ wretry = [b \in Backends |-> 0]
    /\ whas = [b \in Backends |-> FALSE]
    /\ wresult = [b \in Backends |-> <<>>]
    /\ woutcome = [b \in Backends |-> "none"]
    /\ data = "request"
    /\ sent = {}
    /\ result = <<>>
    /\ result_all = <<>>
    /\ fresult = <<>>
    /\ overtaken = FALSE

\* intergrate_results before its first loop.
AggIdle ==
    /\ pc = "stanford"
    /\ new_result = <<>>
    /\ res = EmptyListMembers
    /\ final_result = <<>>
    /\ reported = {}
    /\ used = 0
    /\ first_ne = [p \in Pos |-> <<>>]
    /\ last_alt = [p \in Pos |-> <<>>]

Init ==
    /\ AggIdle
    /\ configured \in {IndexParsers, TestAllParsers}
    /\ quota = MaxReports
    /\ DispIdle
    /\ FnIdle

\* for ne in result.get("stanford"): ...
Primary ==
    /\ pc = "stanford"
    /\ \E ne \in RawEntities("stanford") :
          /\ Read("stanford", ne)
          /\ new_result' = StanfordStep(new_result, ne)
          /\ res' = SeedEntryKeys
    /\ UNCHANGED <<pc, configured, final_result>>
    /\ UNCHANGED <<dispVars, fnVars>>

\* for ne in result.get("spotlight"): ...
Secondary ==
    /\ pc = "spotlight"
    /\ \E ne \in RawEntities("spotlight") :
          /\ Read("spotlight", ne)
          /\ new_result' = SpotlightStep(new_result, res, ne)
          /\ res' = IF ~PosInRes(ne.pos, res) THEN SeedEntryKeys ELSE res
    /\ UNCHANGED <<pc, configured, final_result>>
    /\ UNCHANGED <<dispVars, fnVars>>

\* for ne in result.get(parser): ...
Corroborate ==
    /\ \E i \in 1 .. Len(parsers) : pc = parsers[i]
    /\ pc \in configured
    /\ \E ne \in RawEntities(pc) :
          /\ Read(pc, ne)
          /\ new_result' = CorroborateStep(new_result, pc, ne)
    /\ UNCHANGED <<pc, configured, res, final_result>>
    /\ UNCHANGED <<dispVars, fnVars>>

\* The list of the current loop is exhausted.
EndOfList ==
    /\ pc \in configured
    /\ pc' = NextLoop(pc)
    /\ UNCHANGED <<configured, new_result, res, final_result, reported, used, quota,
                   first_ne, last_alt>>
    /\ UNCHANGED <<dispVars, fnVars>>

\* if result.get(parser) is None: continue
SkipParser ==
    /\ \E i \in 1 .. Len(parsers) : pc = parsers[i]
    /\ pc \notin configured
    /\ pc' = NextLoop(pc)
    /\ UNCHANGED <<configured, new_result, res, final_result, reported, used, quota,
                   first_ne, last_alt>>
    /\ UNCHANGED <<dispVars, fnVars>>

\* The final loop, the sort and the return.  The entries the loop rewrites
\* in place are the ones it appends, so final_result holds them as
\* rewritten and new_result keeps the registry the passes built.
Finish ==
    /\ pc = "filter"
    /\ IF TypeResolutionRaises(new_result)
       THEN /\ pc' = "raised"
            /\ final_result' = final_result
       ELSE /\ pc' = "done"
            /\ final_result' =
                  SortedByPos(FinalLoop(new_result, 1, "p", SourceText, DefaultContextLen))
    /\ UNCHANGED <<configured, new_result, res, reported, used, quota,
                   first_ne, last_alt>>
    /\ UNCHANGED <<dispVars, fnVars>>

Next ==
    \/ Primary
    \/ Secondary
    \/ Corroborate
    \/ EndOfList
    \/ SkipParser
    \/ Finish

Spec == Init /\ [][Next]_vars

\* The aggregation for the five backends of test_all(), whose lists hold
\* up to one entity per backend in total.
AllInit ==
    /\ AggIdle
    /\ configured = TestAllParsers
    /\ quota = Cardinality(Backends)
    /\ DispIdle
    /\ FnIdle

\* With "flair" a key of `result` no parser is skipped.
AllNext ==
    \/ Primary
    \/ Secondary
    \/ Corroborate
    \/ EndOfList
    \/ Finish

AllSpec == AllInit /\ [][AllNext]_vars

(***************************************************************************)
(* Properties of the aggregation.                                          *)
(***************************************************************************)
\* The backends that reported offset p in the lists read so far.
Reporters(p) == {b \in Backends : \E t \in Types : <<b, p, t>> \in reported}

\* What was reported at offset p.
ReportsAt(p) == {r \in reported : r[2] = p}

\* The offsets of the returned entities.
FinalPositions == {final_result[i].pos : i \in 1 .. Len(final_result)}

\* The returned entity at offset p.
FinalAt(p) == final_result[CHOOSE i \in 1 .. Len(final_result) : final_result[i].pos = p]

\* The distinct backends of a sourceList.
Sources(e) == {e.ner_src[i] : i \in 1 .. Len(e.ner_src)}

\* The highest count of a type histogram.
TopCount(type) ==
    CHOOSE n \in {type[i].v : i \in 1 .. Len(type)} :
        \A i \in 1 .. Len(type) : type[i].v <= n

\* C1: a registry entry is in the output if and only if it has
\* preferredType set or at least two distinct backends in its sourceList.
C1_SurvivalFilter ==
    pc = "done" =>
        \A i \in 1 .. Len(new_result) :
            new_result[i].k \in FinalPositions
                <=> \/ new_result[i].v.pref_type # None
                    \/ Cardinality(Sources(new_result[i].v)) >= 2

\* C2: an offset that only one trusted-seed backend reported is in the
\* output, and an offset that only one non-seed backend reported is not;
\* the aggregation does not fail.
C2_LoneSeedSurvivesLoneOtherDropped ==
    /\ pc # "raised"
    /\ pc = "done" =>
          \A p \in Pos : \A b \in Backends :
              Reporters(p) = {b} => (p \in FinalPositions <=> b \in Seeds)

C2_Witness ==
    /\ pc = "done"
    /\ \E p, q \in Pos :
          /\ Reporters(p) = {"spotlight"} /\ p \in FinalPositions
          /\ Reporters(q) = {"polyglot"} /\ q \notin FinalPositions

\* C3: when stanford and then spotlight each report offset p once, the
\* entry at p after the two seed passes is stanford's entry updated: count
\* 2, sourceList [stanford, spotlight], spotlight's type counted in the
\* histogram, stanford's surface form and preferredType kept.
C3_SecondarySeedUpdates ==
    \A p \in Pos : \A t \in Types :
        ( /\ pc = "spacy"
          /\ used = 2
          /\ reported = {<<"stanford", p, t>>, <<"spotlight", p, "other">>} )
        => LET e == DictGet(new_result, p)
           IN  /\ e.count = 2
               /\ e.ner_src = <<"stanford", "spotlight">>
               /\ e.type = TypeInc(<<[k |-> t, v |-> 1]>>, "other")
               /\ e.ne = BareName
               /\ e.pref_type = t

\* C4: the returned list is strictly ascending by position.
C4_StrictlyAscending ==
    pc = "done" =>
        \A i, j \in 1 .. Len(final_result) :
            i < j => final_result[i].pos < final_result[j].pos

\* Two survivors that entered the registry in descending order of offset.
C4_Witness ==
    /\ pc = "done"
    /\ Len(final_result) >= 2
    /\ \E i, j \in 1 .. Len(new_result) :
          /\ i < j
          /\ new_result[i].k > new_result[j].k
          /\ {new_result[i].k, new_result[j].k} \subseteq FinalPositions

\* C5: for every returned entity, the resolved type is a type of the
\* histogram with the highest count; a highest count of 2, 3 or 4 is the
\* type certainty; with a highest count of 1 the certainty is 1 and the
\* type is the preferred type if the entry has one.
C5_TypeResolution ==
    pc = "done" =>
        \A i \in 1 .. Len(final_result) :
            LET f   == final_result[i]
                e   == DictGet(new_result, f.pos)
                top == TopCount(e.type)
            IN  /\ f.type \in DictKeys(e.type)
                /\ DictGet(e.type, f.type) = top
                /\ top \in 2 .. 4 => f.type_certainty = top
                /\ top = 1 => /\ f.type_certainty = 1
                              /\ e.pref_type # None => f.type = e.pref_type

\* Survivors with certainty 1 (preferred type), 2 on a tie of two types
\* whose winner is not the only type, and a highest count of 3 or more.
C5_Witness ==
    /\ pc = "done"
    /\ \E i \in 1 .. Len(final_result) :
          /\ final_result[i].type_certainty >= 3
          /\ Len(final_result[i].types) = 2
          /\ final_result[i].type # final_result[i].types[1]

\* C6: when a trusted seed and exactly one other backend report offset p,
\* both with type t, the output holds one entity at p with count 2, two
\* sources, type t and certainty 2.
C6_SeedPlusOne ==
    pc = "done" =>
        \A p \in Pos : \A t \in Types : \A s \in Seeds : \A b \in Backends \ {s} :
            ( /\ Reporters(p) = {s, b}
              /\ ReportsAt(p) = {<<s, p, t>>, <<b, p, t>>} )
            => /\ Cardinality({i \in 1 .. Len(final_result) : final_result[i].pos = p}) = 1
               /\ FinalAt(p).count = 2
               /\ Len(FinalAt(p).ner_src) = 2
               /\ FinalAt(p).type = t
               /\ FinalAt(p).type_certainty = 2

\* The place of a backend in the order of the three passes.
PassOrder(b) ==
    CASE b = "stanford"  -> 1
      [] b = "spotlight" -> 2
      [] b = "spacy"     -> 3
      [] b = "polyglot"  -> 4
      [] b = "flair"     -> 5

\* C11: after every step of the aggregation, the sourceList of every
\* registry entry holds no backend twice, holds only backends that
\* reported the offset, in the order in which the passes saw them, and
\* the entry's count is the number of distinct backends counted: a
\* backend that reports an offset more than once is counted once.
C11_NoDoubleCounting ==
    \A i \in 1 .. Len(new_result) :
        LET e == new_result[i].v
        IN  /\ \A j, k \in 1 .. Len(e.ner_src) :
                  j < k => /\ e.ner_src[j] # e.ner_src[k]
                           /\ PassOrder(e.ner_src[j]) < PassOrder(e.ner_src[k])
            /\ Sources(e) \subseteq Reporters(new_result[i].k)
            /\ e.count = Cardinality(Sources(e))

\* A corroborating backend reported an offset twice, with two types, and
\* the entry at that offset counts it once, after the seed that made it.
C11_Witness ==
    /\ pc = "done"
    /\ \E p \in Pos :
          /\ {<<"spacy", p, "person">>, <<"spacy", p, "other">>} \subseteq reported
          /\ DictGet(new_result, p).ner_src = <<"stanford", "spacy">>
          /\ DictGet(new_result, p).count = 2

\* C13: after every step of the aggregation, the surface form of every
\* registry entry is the one the first reporter of its offset gave, and
\* its alternateSurfaceForm is the surface form of the last further
\* backend at that offset whose text differed from it, absent if none did.
C13_AlternateSurfaceForm ==
    \A i \in 1 .. Len(new_result) :
        /\ <<new_result[i].v.ne>> = first_ne[new_result[i].k]
        /\ new_result[i].v.alt_ne = last_alt[new_result[i].k]

\* C12 as stated: when only spotlight reported offset p, the entry at p
\* after the seed passes has count 1, sourceList [spotlight], histogram
\* {type: 1} and no preferredType; only an entry that stanford made has a
\* preferredType.
C12_SecondarySeedCreatesWithoutPreferred ==
    /\ \A p \in Pos :
          (pc = "spacy" /\ ReportsAt(p) = {<<"spotlight", p, "other">>})
          => LET e == DictGet(new_result, p)
             IN  /\ e.count = 1
                 /\ e.ner_src = <<"spotlight">>
                 /\ e.type = <<[k |-> "other", v |-> 1]>>
                 /\ e.pref_type = None
    /\ \A i \in 1 .. Len(new_result) :
          new_result[i].v.pref_type # None
              => new_result[i].v.ner_src[1] = "stanford"

\* C12 amended: when only spotlight reported offset p, the entry at p
\* after the seed passes has count 1, sourceList [spotlight], histogram
\* {type: 1} and preferredType = the reported type; an entry has a
\* preferredType exactly when one of the two seed passes made it.
C12_SecondarySeedCreatesWithPreferred ==
    /\ \A p \in Pos :
          (pc = "spacy" /\ ReportsAt(p) = {<<"spotlight", p, "other">>})
          => LET e == DictGet(new_result, p)
             IN  /\ e.count = 1
                 /\ e.ner_src = <<"spotlight">>
                 /\ e.type = <<[k |-> "other", v |-> 1]>>
                 /\ e.pref_type = "other"
    /\ \A i \in 1 .. Len(new_result) :
          new_result[i].v.pref_type # None
              <=> new_result[i].v.ner_src[1] \in Seeds

\* The seed passes are over; spotlight alone reported one offset and
\* stanford alone another.
C12_Witness ==
    /\ pc = "spacy"
    /\ \E p, q \in Pos :
          /\ ReportsAt(p) = {<<"spotlight", p, "other">>}
          /\ Reporters(q) = {"stanford"}
          /\ DictGet(new_result, p).ner_src = <<"spotlight">>

\* C21: with the five backends, no registry entry reaches a count of 5 or
\* a histogram count of 5, type resolution does not fail, and every
\* returned entity has a type certainty in 1..4.
C21_CountsBelowFive ==
    /\ pc # "raised"
    /\ \A i \in 1 .. Len(new_result) :
          /\ new_result[i].v.count <= 4
          /\ TopCount(new_result[i].v.type) <= 4
    /\ \A i \in 1 .. Len(final_result) :
          final_result[i].type_certainty \in 1 .. 4

\* All five backends reported one offset with one type, and the entity
\* returned for it has count 4 and certainty 4.
C21_Witness ==
    /\ pc = "done"
    /\ \E p \in Pos :
          /\ Reporters(p) = Backends
          /\ ReportsAt(p) = {<<b, p, "other">> : b \in Backends}
          /\ FinalAt(p).count = 4
          /\ FinalAt(p).type_certainty = 4

\* The sum of the counts of a type histogram.
RECURSIVE SumCounts(_)
SumCounts(type) == IF type = <<>> THEN 0 ELSE Head(type).v + SumCounts(Tail(type))

\* C22: after every step of the three passes, every registry entry has
\* count = len(sourceList) = the sum of the counts of its histogram, and
\* count >= 1.
C22_CountMatchesSources ==
    \A i \in 1 .. Len(new_result) :
        LET e == new_result[i].v
        IN  /\ e.count = Len(e.ner_src)
            /\ e.count = SumCounts(e.type)
            /\ e.count >= 1

\* An entry three backends were counted on, with two types, one of them
\* counted twice.
C22_Witness ==
    \E i \in 1 .. Len(new_result) :
        /\ new_result[i].v.count = 3
        /\ Len(new_result[i].v.type) = 2
        /\ TopCount(new_result[i].v.type) = 2

(***************************************************************************)
(* The worker threads and their caller: index() for a request, or the      *)
(* doctest of test_all().                                                  *)
(***************************************************************************)
\* max_retry of Stanford.run and of Spotlight.run.
max_retry == 10
\* ocr_to_dict: `if retry > 50`.
OcrRetryCap == 50

\* The order `for p in parsers` starts the threads in.
ParserOrder(who) ==
    IF who = "index"
    THEN <<"polyglot", "spacy", "spotlight", "stanford">>
    ELSE <<"polyglot", "stanford", "flair", "spacy", "spotlight">>

\* The segments the caller processes: index() every part of parsed_text,
\* test_all() parsed_text["p"].
Segments(who, text) == IF who = "index" THEN text ELSE <<"p">>

\* The entity a backend finds in the segment text, if it finds one.
Found(backend) ==
    [ne   |-> IF backend = "flair" THEN NameWithPeriod ELSE BareName,
     pos  |-> find(SourceText, BareName),
     type |-> IF backend \in {"spotlight", "spacy"} THEN "other" ELSE "person"]

\* The entity lists a run that does not fail can produce.
Findings(backend) == {<<>>, <<Found(backend)>>}

\* A literal that does not occur in the segment text.
AbsentLiteral == <<"z">>

DispInit ==
    /\ AggIdle
    /\ configured = IndexParsers
    /\ quota = MaxReports
    /\ FnIdle
    /\ caller \in {"index", "test_all"}
    /\ request \in [url : BOOLEAN, manual : {NoManual, BareName, AbsentLiteral}]
    /\ caller = "test_all" => request = [url |-> TRUE, manual |-> NoManual]
    /\ upstream \in {"reachable", "unreachable"}
    /\ hpc = "args"
    /\ error = None
    /\ retry = 0
    /\ parsed_text = <<>>
    /\ part = 1
    /\ tasks = <<>>
    /\ joined = 0
    /\ wpc = [b \in Backends |-> "idle"]
    /\ wretry = [b \in Backends |-> 0]
    /\ whas = [b \in Backends |-> FALSE]
    /\ wresult = [b \in Backends |-> <<>>]
    /\ woutcome = [b \in Backends |-> "none"]
    /\ data = "request"
    /\ sent = {}
    /\ result = <<>>
    /\ result_all = <<>>
    /\ fresult = <<>>
    /\ overtaken = FALSE

workerVars == <<wpc, wretry, whas, wresult, woutcome, data, sent, overtaken>>
fetchVars == <<retry, parsed_text>>
segmentVars == <<part, tasks, joined, result, result_all, fresult>>
envVars == <<caller, request, upstream>>

\* The caller ends: it answers (error names the error it answers with) or
\* an exception leaves it.
Ends(how, what) ==
    /\ hpc' = how
    /\ error' = what

\* index(): `if not url`.
Args ==
    /\ hpc = "args"
    /\ IF caller = "index" /\ ~request.url
       THEN Ends("responded", "Missing argument")
       ELSE hpc' = "fetch_loop" /\ error' = error
    /\ UNCHANGED <<envVars, fetchVars, segmentVars, workerVars, aggVars, fnVars>>

\* ocr_to_dict: `while not done:` enters the try block.
FetchCall ==
    /\ hpc = "fetch_loop"
    /\ hpc' = "fetch_call"
    /\ UNCHANGED <<envVars, error, fetchVars, segmentVars, workerVars, aggVars, fnVars>>

\* requests.get raises: `except Exception: done = False`.
FetchRaise ==
    /\ hpc = "fetch_call"
    /\ hpc' = "fetch_loop"
    /\ UNCHANGED <<envVars, error, fetchVars, segmentVars, workerVars, aggVars, fnVars>>

\* requests.get returns a response.
FetchAnswer ==
    /\ hpc = "fetch_call"
    /\ upstream = "reachable"
    /\ \E status_code \in {200, 404} :
          /\ retry' = retry + 1
          /\ hpc' = IF status_code = 200 \/ retry' > OcrRetryCap
                    THEN "parse" ELSE "fetch_loop"
    /\ UNCHANGED <<envVars, error, parsed_text, segmentVars, workerVars, aggVars, fnVars>>

\* The rest of ocr_to_dict builds parsed_text: no part, "p", or "title" and "p".
\* Its local `retry` ends with the call.
ParseOk ==
    /\ hpc = "parse"
    /\ \E text \in {<<>>, <<"p">>, <<"title", "p">>} :
          /\ parsed_text' = text
          /\ retry' = 0
          /\ IF caller = "test_all" /\ "p" \notin {text[i] : i \in 1 .. Len(text)}
             THEN Ends("raised", "KeyError")
             ELSE hpc' = "part" /\ error' = error
    /\ UNCHANGED <<envVars, segmentVars, workerVars, aggVars, fnVars>>

\* The rest of ocr_to_dict raises (the content is no text or no XML):
\* index() answers "Failed to fetch", test_all() has no handler.
ParseRaise ==
    /\ hpc = "parse"
    /\ IF caller = "index"
       THEN Ends("responded", "Failed to fetch")
       ELSE Ends("raised", "Exception")
    /\ retry' = 0
    /\ UNCHANGED <<envVars, parsed_text, segmentVars, workerVars, aggVars, fnVars>>

\* `for part in parsed_text:` takes the next segment: result = {},
\* tasks = [] (which drops the threads of the segment before), and
\* manual_find if the request names an entity.
BeginPart ==
    /\ hpc = "part"
    /\ part <= Len(Segments(caller, parsed_text))
    /\ tasks' = <<>>
    /\ joined' = 0
    /\ result' = <<>>
    /\ wpc' = [b \in Backends |-> "idle"]
    /\ whas' = [b \in Backends |-> FALSE]
    /\ wresult' = [b \in Backends |-> <<>>]
    /\ woutcome' = [b \in Backends |-> "none"]
    /\ overtaken' = FALSE
    /\ IF request.manual # NoManual
       THEN LET found == manual_find(request.manual, SourceText,
                                     Segments(caller, parsed_text)[part],
                                     DefaultContextLen)
            IN  IF found.raised
                THEN Ends("raised", "KeyError") /\ fresult' = fresult
                ELSE /\ hpc' = "start"
                     /\ error' = error
                     /\ fresult' = Append(fresult, found.value)
       ELSE hpc' = "start" /\ error' = error /\ fresult' = fresult
    /\ UNCHANGED <<envVars, fetchVars, part, result_all, wretry, data, sent, aggVars, fnVars>>

\* tasks.append(parsers[p](parsed_text=...)); tasks[-1].start()
StartTask ==
    /\ hpc = "start"
    /\ LET b == ParserOrder(caller)[Len(tasks) + 1]
       IN  /\ tasks' = Append(tasks, b)
           /\ wpc' = [wpc EXCEPT ![b] = "run"]
    /\ hpc' = IF Len(tasks') = Len(ParserOrder(caller)) THEN "join" ELSE "start"
    /\ UNCHANGED <<envVars, error, fetchVars, part, joined, result, result_all,
                   fresult, wretry, whas, wresult, woutcome, data, sent,
                   overtaken, aggVars, fnVars>>

\* A join that returns at once.
JoinReturnsAtOnce(b) == TRUE

\* ner_result = p.join(); result[list(ner_result)[0]] = ...
\* threading.Thread.join returns once the thread has ended.  Flair.join
\* reads self.result, which raises AttributeError if run() never set it.
JoinWaits(b) == wpc[b] = "ended"

JoinTask ==
    /\ hpc = "join"
    /\ LET b == tasks[joined + 1]
       IN  /\ JoinWaits(b)
           /\ IF ~whas[b]
              THEN /\ Ends("raised", "AttributeError")
                   /\ UNCHANGED <<joined, result>>
              ELSE /\ result' = DictSet(result, b, wresult[b])
                   /\ joined' = joined + 1
                   /\ error' = error
                   /\ hpc' = IF joined' = Len(tasks) THEN "integrate" ELSE "join"
    /\ UNCHANGED <<envVars, fetchVars, part, tasks, result_all, fresult,
                   workerVars, aggVars, fnVars>>

\* result_all[part] = intergrate_results(result, part, parsed_text[part],
\* context_len); test_all() prints the last entity of the list.
Integrate ==
    /\ hpc = "integrate"
    /\ LET seg == Segments(caller, parsed_text)[part]
           out == intergrate_results(result, seg, SourceText, DefaultContextLen)
       IN  IF out.raised
           THEN Ends("raised", "UnboundLocalError") /\ UNCHANGED <<part, result_all>>
           ELSE IF caller = "test_all" /\ out.value = <<>>
           THEN Ends("raised", "IndexError") /\ UNCHANGED <<part, result_all>>
           ELSE /\ result_all' = DictSet(result_all, seg, out.value)
                /\ part' = part + 1
                /\ hpc' = "part"
                /\ error' = error
    /\ UNCHANGED <<envVars, fetchVars, tasks, joined, result, fresult,
                   workerVars, aggVars, fnVars>>

\* The entities of every segment, in the order of result_all.
RECURSIVE Flatten(_)
Flatten(d) == IF d = <<>> THEN <<>> ELSE Head(d).v \o Flatten(Tail(d))

\* After the last segment: the response with the entities of all parts.
Respond ==
    /\ hpc = "part"
    /\ part > Len(Segments(caller, parsed_text))
    /\ fresult' = fresult \o Flatten(result_all)
    /\ Ends("responded", None)
    /\ UNCHANGED <<envVars, fetchVars, part, tasks, joined, result, result_all,
                   workerVars, aggVars, fnVars>>

\* The thread of backend b ends with self.result as given.  The locals of
\* its run() end with it: wretry, data and sent are cleared where a run
\* ends or no longer reads them.
WorkerEnds(b, assigned, entities, outcome) ==
    /\ wpc' = [wpc EXCEPT ![b] = "ended"]
    /\ whas' = [whas EXCEPT ![b] = assigned]
    /\ wresult' = [wresult EXCEPT ![b] = entities]
    /\ woutcome' = [woutcome EXCEPT ![b] = outcome]
    /\ overtaken' = ( \/ overtaken
                      \/ \E i, j \in 1 .. Len(tasks) :
                            i < j /\ tasks[j] = b /\ wpc[tasks[i]] # "ended" )

\* Stanford.run: telnetlib.Telnet(...) raises; after max_retry failures
\* `if not done: self.result = {"stanford": []}; return`.
StanfordConnectFails ==
    /\ wpc["stanford"] = "run"
    /\ IF wretry["stanford"] + 1 < max_retry
       THEN /\ wretry' = [wretry EXCEPT !["stanford"] = @ + 1]
            /\ UNCHANGED <<wpc, whas, wresult, woutcome, overtaken>>
       ELSE /\ wretry' = [wretry EXCEPT !["stanford"] = 0]
            /\ WorkerEnds("stanford", TRUE, <<>>, "exhausted")
    /\ UNCHANGED <<envVars, hpc, error, fetchVars, segmentVars, data, sent, aggVars, fnVars>>

\* Stanford.run: the connection is made, done = True.
StanfordConnects ==
    /\ wpc["stanford"] = "run"
    /\ wpc' = [wpc EXCEPT !["stanford"] = "talk"]
    /\ wretry' = [wretry EXCEPT !["stanford"] = 0]
    /\ UNCHANGED <<envVars, hpc, error, fetchVars, segmentVars, whas,
                   wresult, woutcome, data, sent, overtaken, aggVars, fnVars>>

\* Stanford.run: the answer is read and parsed.
StanfordAnswers ==
    /\ wpc["stanford"] = "talk"
    /\ \E entities \in Findings("stanford") :
          WorkerEnds("stanford", TRUE, entities, "ok")
    /\ UNCHANGED <<envVars, hpc, error, fetchVars, segmentVars, wretry, data,
                   sent, aggVars, fnVars>>

\* Stanford.run: writing, reading or parsing raises; the thread ends with
\* the self.result its first statement assigned.
StanfordTalkRaises ==
    /\ wpc["stanford"] = "talk"
    /\ WorkerEnds("stanford", TRUE, <<>>, "failed")
    /\ UNCHANGED <<envVars, hpc, error, fetchVars, segmentVars, wretry, data,
                   sent, aggVars, fnVars>>

\* Spotlight.run: an attempt fails.  requests.get or response.json()
\* raises ("get"), or the decoded answer is assigned to `data` and handling
\* its Resources raises ("parse").
SpotlightAttemptFails ==
    /\ wpc["spotlight"] = "run"
    /\ IF wretry["spotlight"] + 1 < max_retry
       THEN /\ \E at \in {"get", "parse"} :
                  /\ sent' = sent \cup {data}
                  /\ data' = IF at = "parse" THEN "response" ELSE data
            /\ wretry' = [wretry EXCEPT !["spotlight"] = @ + 1]
            /\ whas' = [whas EXCEPT !["spotlight"] = TRUE]
            /\ wresult' = [wresult EXCEPT !["spotlight"] = <<>>]
            /\ UNCHANGED <<wpc, woutcome, overtaken>>
       ELSE /\ sent' = {}
            /\ data' = "request"
            /\ wretry' = [wretry EXCEPT !["spotlight"] = 0]
            /\ WorkerEnds("spotlight", TRUE, <<>>, "exhausted")
    /\ UNCHANGED <<envVars, hpc, error, fetchVars, segmentVars, aggVars, fnVars>>

\* Spotlight.run: an attempt succeeds, done = True.
SpotlightAnswers ==
    /\ wpc["spotlight"] = "run"
    /\ sent' = {}
    /\ data' = "request"
    /\ wretry' = [wretry EXCEPT !["spotlight"] = 0]
    /\ \E entities \in Findings("spotlight") :
          WorkerEnds("spotlight", TRUE, entities, "ok")
    /\ UNCHANGED <<envVars, hpc, error, fetchVars, segmentVars, aggVars, fnVars>>

\* Polyglot.run, Spacy.run, Flair.run: the model answers.
LocalAnswers ==
    /\ \E b \in {"polyglot", "spacy", "flair"} :
          /\ wpc[b] = "run"
          /\ \E entities \in Findings(b) : WorkerEnds(b, TRUE, entities, "ok")
    /\ UNCHANGED <<envVars, hpc, error, fetchVars, segmentVars, wretry, data,
                   sent, aggVars, fnVars>>

\* Polyglot.run, Spacy.run: the model raises inside the try block.
LocalFails ==
    /\ \E b \in {"polyglot", "spacy"} :
          /\ wpc[b] = "run"
          /\ WorkerEnds(b, TRUE, <<>>, "failed")
    /\ UNCHANGED <<envVars, hpc, error, fetchVars, segmentVars, wretry, data,
                   sent, aggVars, fnVars>>

\* Flair.run: Sentence(...) or predict(...) raises.  No try block: the
\* thread ends before `self.result = []`.
FlairFails ==
    /\ wpc["flair"] = "run"
    /\ WorkerEnds("flair", FALSE, <<>>, "failed")
    /\ UNCHANGED <<envVars, hpc, error, fetchVars, segmentVars, wretry, data,
                   sent, aggVars, fnVars>>

CallerStep ==
    \/ Args \/ FetchCall \/ FetchRaise \/ FetchAnswer \/ ParseOk \/ ParseRaise
    \/ BeginPart \/ StartTask \/ JoinTask \/ Integrate \/ Respond

WorkerStep ==
    \/ StanfordConnectFails \/ StanfordConnects \/ StanfordAnswers
    \/ StanfordTalkRaises \/ SpotlightAttemptFails \/ SpotlightAnswers
    \/ LocalAnswers \/ LocalFails \/ FlairFails

DispNext ==
    \/ Args
    \/ FetchCall
    \/ FetchRaise
    \/ FetchAnswer
    \/ ParseOk
    \/ ParseRaise
    \/ BeginPart
    \/ StartTask
    \/ JoinTask
    \/ Integrate
    \/ Respond
    \/ StanfordConnectFails
    \/ StanfordConnects
    \/ StanfordAnswers
    \/ StanfordTalkRaises
    \/ SpotlightAttemptFails
    \/ SpotlightAnswers
    \/ LocalAnswers
    \/ LocalFails
    \/ FlairFails

DispSpec == DispInit /\ [][DispNext]_vars

\* The caller's thread and the worker threads are all scheduled.
FairDispSpec == DispSpec /\ WF_vars(CallerStep) /\ WF_vars(WorkerStep)

(***************************************************************************)
(* Properties of the request handler and the workers.                      *)
(***************************************************************************)
\* The backends the caller configures.
Configured == {ParserOrder(caller)[i] : i \in 1 .. Len(ParserOrder(caller))}

\* C7: when intergrate_results is called for a segment, one thread per
\* configured backend was started for it, every one of them has ended, and
\* the result map holds exactly one entry per configured backend, under
\* the backend's name, with the list that backend's thread left.
C7_JoinBeforeAggregate ==
    hpc = "integrate" =>
        /\ tasks = ParserOrder(caller)
        /\ \A b \in Configured : wpc[b] = "ended"
        /\ Len(result) = Cardinality(Configured)
        /\ DictKeys(result) = Configured
        /\ \A b \in Configured : DictGet(result, b) = wresult[b]

\* The second segment of a request is about to be aggregated.
C7_Witness ==
    /\ hpc = "integrate"
    /\ part = 2
    /\ \E b \in Configured : DictGet(result, b) # <<>>

\* C8: a Stanford or Spotlight thread never makes more than max_retry
\* attempts; when it has used them all it ends with an empty list under
\* its name, and no join ends the batch with an exception.
C8_RetryExhaustionFailsOpen ==
    \A b \in Seeds :
        /\ wretry[b] <= max_retry
        /\ woutcome[b] = "exhausted" =>
              /\ wpc[b] = "ended"
              /\ whas[b]
              /\ wresult[b] = <<>>
              /\ ~(hpc = "raised" /\ error = "AttributeError")

\* C9: a thread whose recognizer failed ends with self.result set to the
\* empty list, and its join raises nothing.
C9_NoAdapterRaises ==
    /\ \A b \in Backends :
          (wpc[b] = "ended" /\ woutcome[b] \in {"failed", "exhausted"})
              => whas[b] /\ wresult[b] = <<>>
    /\ ~(hpc = "raised" /\ error = "AttributeError")

\* C23: every attempt of Spotlight.run sends the request parameters
\* {text, confidence}, and while the retry loop runs `data` holds them: a
\* failed attempt leaves them as they were.
C23_SameParamsEveryAttempt ==
    /\ sent \subseteq {"request"}
    /\ wpc["spotlight"] = "run" => data = "request"

\* C10: when the text source is unreachable, so that every requests.get of
\* ocr_to_dict raises, the handler eventually answers the request.
C10_UpstreamFailureSurfaced ==
    (upstream = "unreachable" /\ hpc = "fetch_loop") ~> (hpc = "responded")

\* The lists the threads of the segment left, as a result map whose keys
\* were inserted in the given order.
ResultInOrder(order) ==
    [i \in 1 .. Len(order) |-> [k |-> order[i], v |-> wresult[order[i]]]]

Reverse(seq) == [i \in 1 .. Len(seq) |-> seq[Len(seq) + 1 - i]]

\* C14: the entities aggregated for a segment are those intergrate_results
\* gives for the lists its threads left, whatever the order the lists
\* enter the result map in: the order the threads were started in, or the
\* reverse of it.
C14_IndependentOfFinishOrder ==
    (hpc = "part" /\ part > 1) =>
        LET seg == Segments(caller, parsed_text)[part - 1]
        IN  \A order \in {ParserOrder(caller), Reverse(ParserOrder(caller))} :
                DictGet(result_all, seg)
                    = intergrate_results(ResultInOrder(order), seg, SourceText,
                                         DefaultContextLen).value

\* A segment has been aggregated to a non-empty list after one of its
\* threads ended before a thread that was started earlier.
C14_Witness ==
    /\ hpc = "part"
    /\ part > 1
    /\ overtaken
    /\ DictGet(result_all, Segments(caller, parsed_text)[part - 1]) # <<>>

\* C15: for a literal that occurs in the segment text, manual_find does
\* not fail, and the record it returns holds the index of the first
\* occurrence, the literal, type 'manual', the segment label, and the
\* contexts context() gives for that index.
C15_ManualFindPresent ==
    (request.manual # NoManual /\ find(SourceText, request.manual) # 0 - 1) =>
        /\ ~(hpc = "raised" /\ error = "KeyError")
        /\ hpc \in {"start", "join", "integrate"} =>
              LET at  == find(SourceText, request.manual)
                  ctx == context(SourceText, request.manual, at, DefaultContextLen)
              IN  /\ fresult # <<>>
                  /\ fresult[Len(fresult)] =
                        [pos |-> at, ne |-> request.manual,
                         source |-> Segments(caller, parsed_text)[part],
                         type |-> "manual",
                         left_context |-> ctx.left_context,
                         right_context |-> ctx.right_context,
                         ne_context |-> ctx.ne_context]

\* C16: for a literal that does not occur in the segment text,
\* manual_find does not fail, and the record it returns holds position -1,
\* the literal, type 'manual', the segment label, empty left and right
\* contexts and the literal as neContext.
C16_ManualFindAbsent ==
    request.manual = AbsentLiteral =>
        /\ ~(hpc = "raised" /\ error = "KeyError")
        /\ hpc \in {"start", "join", "integrate"} =>
              /\ fresult # <<>>
              /\ fresult[Len(fresult)] =
                    [pos |-> 0 - 1, ne |-> AbsentLiteral,
                     source |-> Segments(caller, parsed_text)[part],
                     type |-> "manual",
                     left_context |-> <<>>,
                     right_context |-> <<>>,
                     ne_context |-> AbsentLiteral]

\* The second segment of a request for an absent literal: manual_find has
\* returned twice.
C16_Witness ==
    /\ request.manual = AbsentLiteral
    /\ hpc = "start"
    /\ part = 2
    /\ Len(fresult) = 2

(***************************************************************************)
(* context() and the offset computation applied on their own, to every     *)
(* text of up to MaxTextLen characters.                                    *)
(***************************************************************************)
\* A letter, a character of CONTEXT_TOKENS and whitespace.
Alphabet == {"a", ",", " "}

\* Every sequence over `set` of length 0 .. n.
SeqsUpTo(set, n) == UNION {[1 .. k -> set] : k \in 0 .. n}

Texts == SeqsUpTo(Alphabet, MaxTextLen)

\* The surface forms of an entity.
Surfaces == {<<"a">>, <<"a", "a">>}

\* The surface forms a result list can hold, the empty one included.
ListedSurfaces == {<<>>, <<"a">>, <<",">>, <<"a", "a">>}

ContextArgs ==
    {a \in [text_org : Texts, ne : Surfaces,
            pos : (0 - 2) .. (MaxTextLen + 2), context_len : 0 .. MaxWindow] :
        a.pos <= Len(a.text_org) + 2}

OffsetArgs == [parsed_text : Texts, names : SeqsUpTo(ListedSurfaces, MaxNames)]

FnInit ==
    /\ AggIdle
    /\ configured = IndexParsers
    /\ quota = MaxReports
    /\ DispIdle
    /\ \/ fn = "context" /\ args \in ContextArgs
       \/ fn = "offsets" /\ args \in OffsetArgs
    /\ ret = <<>>

\* context(text_org, ne, pos, context_len) is called and returns.
CallContext ==
    /\ fn = "context"
    /\ ret = <<>>
    /\ ret' = <<context(args.text_org, args.ne, args.pos, args.context_len)>>
    /\ UNCHANGED <<fn, args, aggVars, dispVars>>

\* The loop that assigns result[i]["pos"] runs over the whole list.
CallOffsets ==
    /\ fn = "offsets"
    /\ ret = <<>>
    /\ ret' = <<Positions(args.parsed_text, args.names, 0)>>
    /\ UNCHANGED <<fn, args, aggVars, dispVars>>

FnNext ==
    \/ CallContext
    \/ CallOffsets

FnSpec == FnInit /\ [][FnNext]_vars

(***************************************************************************)
(* Properties of context() and of the offset computation.                  *)
(***************************************************************************)
\* context() has returned for a surface form that lies in the text at the
\* offset given.
InRangeCall ==
    /\ fn = "context"
    /\ ret # <<>>
    /\ args.pos >= 0
    /\ args.pos + Len(args.ne) <= Len(args.text_org)
    /\ SubSeq(args.text_org, args.pos + 1, args.pos + Len(args.ne)) = args.ne

\* The last n and the first n items of a list, all of them if fewer.
LastN(xs, n) == SubSeq(xs, Max(Len(xs) - n, 0) + 1, Len(xs))
FirstN(xs, n) == SubSeq(xs, 1, Min(n, Len(xs)))

\* The tokens of the text before the offset, and after the surface form.
TokensBefore == split(SubSeq(args.text_org, 1, args.pos))
TokensAfter ==
    split(SubSeq(args.text_org, args.pos + Len(args.ne) + 1, Len(args.text_org)))

\* C17: for a surface form at an in-range offset and a window of W >= 0
\* tokens, leftContext is the last W tokens before the offset and
\* rightContext the first W tokens after the surface form, fewer if fewer
\* exist, and each holds at most W tokens.
C17_ContextWindows ==
    InRangeCall =>
        /\ ret[1].left_context = join(LastN(TokensBefore, args.context_len))
        /\ ret[1].right_context = join(FirstN(TokensAfter, args.context_len))
        /\ Len(split(ret[1].left_context)) <= args.context_len
        /\ Len(split(ret[1].right_context)) <= args.context_len

\* C18: for a window of at least one token, neContext is the surface form,
\* with the character right before the offset in front of it only if that
\* character is a boundary token, and the character right after the
\* surface form behind it only if that character is a boundary token.
C18_BoundaryCharacters ==
    (InRangeCall /\ args.context_len >= 1) =>
        LET text   == args.text_org
            after  == args.pos + Len(args.ne) + 1
            prefix == IF args.pos >= 1 /\ text[args.pos] \in CONTEXT_TOKENS
                      THEN <<text[args.pos]>> ELSE <<>>
            suffix == IF after <= Len(text) /\ text[after] \in CONTEXT_TOKENS
                      THEN <<text[after]>> ELSE <<>>
        IN  ret[1].ne_context = prefix \o args.ne \o suffix

\* C19: for an offset that is negative or beyond the end of the text,
\* context() returns empty left and right contexts.
C19_OutOfRangeOffsets ==
    ( /\ fn = "context"
      /\ ret # <<>>
      /\ (args.pos < 0 \/ args.pos > Len(args.text_org)) )
    => /\ ret[1].left_context = <<>>
       /\ ret[1].right_context = <<>>

\* The lowest index >= from at which sub occurs in text, or -1.
FirstAtOrAfter(text, sub, from) ==
    LET hits == {i \in from .. Len(text) - Len(sub) :
                    \A k \in 1 .. Len(sub) : text[i + k] = sub[k]}
    IN  IF hits = {} THEN 0 - 1
        ELSE CHOOSE i \in hits : \A j \in hits : i <= j

\* The end of the entity resolved before entity i.
EndOfPrevious(i) == IF i = 1 THEN 0 ELSE ret[1][i - 1] + Len(args.names[i - 1])

\* Every surface form of the list is non-empty and occurs at or after the
\* end of the entity before it.
AllLocated ==
    \A i \in 1 .. Len(args.names) :
        /\ args.names[i] # <<>>
        /\ FirstAtOrAfter(args.parsed_text, args.names[i], EndOfPrevious(i)) # 0 - 1

\* C20: the offset computation assigns every entity an offset; when every
\* surface form is non-empty and occurs at or after the end of the entity
\* before it, each offset is that of the first such occurrence, the text
\* at the offset is the surface form, and the entities are strictly
\* increasing and do not overlap.
C20_AdapterOffsets ==
    (fn = "offsets" /\ ret # <<>>) =>
        /\ Len(ret[1]) = Len(args.names)
        /\ AllLocated =>
              \A i \in 1 .. Len(args.names) :
                  /\ ret[1][i] = FirstAtOrAfter(args.parsed_text, args.names[i],
                                                EndOfPrevious(i))
                  /\ SubSeq(args.parsed_text, ret[1][i] + 1,
                            ret[1][i] + Len(args.names[i])) = args.names[i]
                  /\ i > 1 => /\ ret[1][i] > ret[1][i - 1]
                              /\ ret[1][i] >= EndOfPrevious(i)

\* Two entities located, the first not at the start of the text and the
\* second not right behind the first.
C20_Witness ==
    /\ fn = "offsets"
    /\ ret # <<>>
    /\ Len(args.names) = 2
    /\ AllLocated
    /\ ret[1][1] > 0
    /\ ret[1][2] > EndOfPrevious(2)

====
